---------------------------- MODULE Spec2Model ----------------------------
(***************************************************************************)
(* Model of textImage.py: the HTML -> branded social image generator.      *)
(*                                                                         *)
(* Text is modelled as a sequence of tokens (one token per line or per     *)
(* template piece); a number interpolated by the f-string template is the  *)
(* token ToString(n).  Three specifications share the variables:           *)
(*   Spec         a run of main()                                          *)
(*   TypoSpec     direct calls of compute_typography                       *)
(*   ComposeSpec  direct calls of build_full_html                          *)
(***************************************************************************)
EXTENDS Integers, Sequences, FiniteSets, TLC

VARIABLES
    pc,             \* position in main() / in the direct-call specifications
    choice,         \* the stripped answer read by choose_platforms
    platform_keys,  \* main: platform_keys
    user_html,      \* main: user_html (sequence of lines)
    extra_css,      \* main: extra_css (sequence of lines)
    out_dir,        \* main: out_dir
    idx,            \* position of the for loop in platform_keys (1-based)
    invocations,    \* the calls of imgkit.from_string made so far, in order
    files,          \* the output paths the rasterizer has written
    error,          \* the exception that ended main(), or NoError
    width,          \* argument of a direct call
    height,         \* argument of a direct call
    typo,           \* result of a direct call of compute_typography
    full_html       \* result of a direct call of build_full_html

vars == <<pc, choice, platform_keys, user_html, extra_css, out_dir, idx,
          invocations, files, error, width, height, typo, full_html>>

mainVars == <<choice, platform_keys, user_html, extra_css, out_dir, idx,
              invocations, files, error>>

-----------------------------------------------------------------------------
(* Bounds of the model *)

MaxHeight == 1400

MaxWidth == 1300

MaxCssLines == 2

MaxHtmlLines == 1

-----------------------------------------------------------------------------
(* Constants of the program *)

WKHTMLTOIMAGE_CMD == "C:\\Program Files\\wkhtmltopdf\\bin\\wkhtmltoimage.exe"

PLATFORMS ==
    [k \in {"1", "2", "3", "4"} |->
        CASE k = "1" -> [name |-> "instagram", width |-> 1080, height |-> 1350]
          [] k = "2" -> [name |-> "facebook",  width |-> 1200, height |-> 630]
          [] k = "3" -> [name |-> "linkedin",  width |-> 1200, height |-> 627]
          [] k = "4" -> [name |-> "threads",   width |-> 1080, height |-> 1350]]

\* list(PLATFORMS.keys()): a dict keeps its insertion order
PLATFORM_KEYS == <<"1", "2", "3", "4">>

BASE_CSS == "/* Non-critical extras can go here; key styling is injected dynamically. */"

SAMPLE_HTML == <<"<h1>Sample Heading</h1><p>Replace this with your HTML.</p>">>

NoError == [kind |-> "none", platform |-> "none"]

NoTypo == [base |-> 0, h1 |-> 0, h3 |-> 0, line_height |-> 0]

-----------------------------------------------------------------------------
(* Helpers *)

\* int(x * f) for x >= 0 and the decimal literal f = num / den
IntTimes(x, num, den) == (x * num) \div den

Min(a, b) == IF a < b THEN a ELSE b

Max(a, b) == IF a > b THEN a ELSE b

\* a line that str.strip() reduces to nothing
IsBlank(line) == line \in {"", " "}

RECURSIVE StripLeft(_)
StripLeft(lines) ==
    IF lines # <<>> /\ IsBlank(Head(lines)) THEN StripLeft(Tail(lines)) ELSE lines

RECURSIVE StripRight(_)
StripRight(lines) ==
    IF lines # <<>> /\ IsBlank(lines[Len(lines)])
    THEN StripRight(SubSeq(lines, 1, Len(lines) - 1))
    ELSE lines

\* "\n".join(lines).strip(): leading and trailing blank lines are dropped
JoinStrip(lines) == StripRight(StripLeft(lines))

\* the sequences over S of length at most n
SeqsUpTo(S, n) == UNION {[1..m -> S] : m \in 0..n}

-----------------------------------------------------------------------------
(* compute_typography *)

\* mutant: the aspect taken as width over height
IsPortrait_WidthOverHeight(w, h) == 5 * w >= 6 * h

\* aspect = height / float(width); aspect >= 1.2
\* (for integers below 2^53 the float quotient is >= the double 1.2 exactly
\*  when 5 * height >= 6 * width)
IsPortrait(w, h) == 5 * h >= 6 * w

\* mutant: the product rounded to the nearest integer instead of truncated
PortraitBase_Rounded(h) == Max(24, Min((2 * h * 28 + 1000) \div 2000, 36))

\* mutant: the upper clamp forgotten
PortraitBase_NoCap(h) == Max(24, IntTimes(h, 28, 1000))

\* base = int(height * 0.028); base = max(24, min(base, 36))
PortraitBase(h) == Max(24, Min(IntTimes(h, 28, 1000), 36))

\* base = int(height * 0.024); base = max(16, min(base, 24))
LandscapeBase(h) == Max(16, Min(IntTimes(h, 24, 1000), 24))

TypoBase(w, h) == IF IsPortrait(w, h) THEN PortraitBase(h) ELSE LandscapeBase(h)

\* mutant: the derived sizes rounded to the nearest integer instead of truncated
DerivedSizes_Rounded(base) ==
    [base        |-> base,
     h1          |-> (2 * base * 20 + 10) \div 20,
     h3          |-> (2 * base * 14 + 10) \div 20,
     line_height |-> (2 * base * 16 + 10) \div 20]

\* h1 = int(base * 2.0); h3 = int(base * 1.4); line_height = int(base * 1.6)
DerivedSizes(base) ==
    [base        |-> base,
     h1          |-> IntTimes(base, 20, 10),
     h3          |-> IntTimes(base, 14, 10),
     line_height |-> IntTimes(base, 16, 10)]

compute_typography(w, h) == DerivedSizes(TypoBase(w, h))

-----------------------------------------------------------------------------
(* build_full_html *)

\* extra = f"\n/* User overrides */\n{extra_css}" if extra_css else ""
OverrideBlock(css) ==
    IF css # <<>> THEN <<"/* User overrides */">> \o css ELSE <<>>

\* mutant: the cap of 960 forgotten
ContentMaxWidth_NoCap(w) == IntTimes(w, 8, 10)

\* content_max_width = min(int(width * 0.8), 960)
ContentMaxWidth(w) == Min(IntTimes(w, 8, 10), 960)

Px(n) == <<ToString(n), "px">>

\* the template from <!DOCTYPE html> to <style>
DocHead ==
    <<"<!DOCTYPE html>", "<html lang=\"en\">", "<head>", "<meta charset=\"utf-8\">",
      "<!-- Google Fonts for Archivo / Barlow -->", "<link rel=\"stylesheet\" href=fonts>",
      "<style>">>

\* the brand rules of the stylesheet, from {BASE_CSS} to the "ul li" rule
BrandRules(t) ==
    <<BASE_CSS>>
    \o <<"html, body {", "margin: 0;", "padding: 0;", "width: 100%;", "height: 100%;", "}">>
    \o <<"/* Headings: Archivo Narrow, gold */", "h1, h2, h3, h4, h5, h6 {",
         "color: #E7B95F;", "font-family: Archivo Narrow;", "letter-spacing: 0.07em;",
         "text-transform: uppercase;", "margin-bottom: 0.4em;", "word-wrap: break-word;",
         "overflow-wrap: break-word;", "}">>
    \o <<"h1 {", "font-size:">> \o Px(t.h1)
    \o <<";", "line-height: 1.15;", "margin-bottom:">> \o Px(IntTimes(t.base, 10, 10))
    \o <<";", "}">>
    \o <<"h3 {", "font-size:">> \o Px(t.h3)
    \o <<";", "margin-top:">> \o Px(IntTimes(t.base, 13, 10))
    \o <<";", "margin-bottom:">> \o Px(IntTimes(t.base, 7, 10))
    \o <<";", "}">>
    \o <<"/* Body text: Barlow, light color */", "p, li, span, div {", "color: #F5F5F5;",
         "font-family: Barlow;", "font-size:">> \o Px(t.base)
    \o <<";", "line-height:">> \o Px(t.line_height)
    \o <<";", "}">>
    \o <<"/* Accent (strong/em) uses Archivo + gold */", "strong, b, em, i, a, .accent {",
         "color: #E7B95F;", "font-family: Archivo;", "}">>
    \o <<"/* Center bullets nicely */", "ul {", "list-style-position: inside;",
         "padding-left: 0;", "margin:">> \o Px(IntTimes(t.base, 4, 10))
    \o <<"auto 0 auto;", "text-align: left;", "display: inline-block;", "}">>
    \o <<"ul li {", "margin:">> \o Px(IntTimes(t.base, 2, 10))
    \o <<"0;", "}">>

\* mutant: the override block placed before the brand rules
StyleSheet_OverrideFirst(css, t) == OverrideBlock(css) \o BrandRules(t)

\* the stylesheet: what stands between <style> and </style>
StyleSheet(css, t) == BrandRules(t) \o OverrideBlock(css)

\* the template from </style> to </html>, with the user's HTML embedded
DocBody(html, w, h, t) ==
    <<"</style>", "</head>">>
    \o <<"<body style=", "margin:0;", "background-color:#1C1C1C;", "color:#F5F5F5;",
         "font-family:Barlow;", "font-size:">> \o Px(t.base)
    \o <<";", ">">>
    \o <<"<div style=", "width:100%;", "height:">> \o Px(h)
    \o <<";", "padding-top:">> \o Px(IntTimes(t.base, 5, 10))
    \o <<";", "padding-bottom:">> \o Px(IntTimes(t.base, 18, 10))
    \o <<";", "box-sizing:border-box;", "display:flex;", "align-items:center;",
         "justify-content:center;", "text-align:center;", ">">>
    \o <<"<div style=", "max-width:">> \o Px(ContentMaxWidth(w))
    \o <<";", "width:86%;", "margin:0 auto;", ">">>
    \o html
    \o <<"</div>", "</div>", "</body>", "</html>">>

build_full_html(html, css, w, h) ==
    LET t == compute_typography(w, h)
    IN  DocHead \o StyleSheet(css, t) \o DocBody(html, w, h, t)

-----------------------------------------------------------------------------
(* A run of main() *)

\* the answers choose_platforms may read (after .strip())
Choices == {"1", "2", "3", "4", "5", "9"}

\* the lines the user may paste
HtmlLines == {" ", "<p>Hello</p>"}

CssLines == {" ", "}", "p { color: red; }"}

\* os.path.join(out_dir, f"{name}.png"): directory and file name
OutPath(dir, name) == <<dir, name \o ".png">>

Options(w, h) ==
    [format |-> "png", width |-> w, height |-> h, encoding |-> "UTF-8",
     disable_smart_width |-> ""]

Init ==
    /\ pc = "choose_platforms"
    /\ choice = "none"
    /\ platform_keys = <<>>
    /\ user_html = <<>>
    /\ extra_css = <<>>
    /\ out_dir = "none"
    /\ idx = 1
    /\ invocations = <<>>
    /\ files = {}
    /\ error = NoError
    /\ width = 0
    /\ height = 0
    /\ typo = NoTypo
    /\ full_html = <<>>

\* mutant: an invalid answer passed on instead of replaced by the default
ChosenKeys_NoDefault(c) == IF c = "5" THEN PLATFORM_KEYS ELSE <<c>>

\* mutant: the 'all' selection in reverse order
ChosenKeys_Reversed(c) ==
    IF c \in DOMAIN PLATFORMS THEN <<c>> ELSE <<"4", "3", "2", "1">>

\* the list choose_platforms returns for the answer c
ChosenKeys(c) ==
    IF c = "5" THEN PLATFORM_KEYS
    ELSE IF c \in DOMAIN PLATFORMS THEN <<c>>
    ELSE PLATFORM_KEYS   \* "Invalid choice, defaulting to option 5 (all)."

\* input() returns an answer, or raises EOFError (caught nowhere) at end of input
choose_platforms ==
    /\ pc = "choose_platforms"
    /\ \/ \E c \in Choices :
            /\ choice' = c
            /\ platform_keys' = ChosenKeys(c)
            /\ pc' = "get_html_from_user"
            /\ error' = error
       \/ /\ pc' = "crashed"
          /\ error' = [kind |-> "EOFError", platform |-> "none"]
          /\ UNCHANGED <<choice, platform_keys>>
    /\ UNCHANGED <<user_html, extra_css, out_dir, idx, invocations, files,
                   width, height, typo, full_html>>

\* the lines up to "END" or the end of input (EOFError is caught here)
get_html_from_user ==
    /\ pc = "get_html_from_user"
    /\ \E lines \in SeqsUpTo(HtmlLines, MaxHtmlLines) :
        LET html == JoinStrip(lines)
        IN  user_html' = IF html = <<>> THEN SAMPLE_HTML ELSE html
    /\ pc' = "get_css_overrides_from_user"
    /\ UNCHANGED <<choice, platform_keys, extra_css, out_dir, idx, invocations, files,
                   error, width, height, typo, full_html>>

\* the y/n answer (EOFError of this input() is caught nowhere), then the lines
\* up to "END" or the end of input
get_css_overrides_from_user ==
    /\ pc = "get_css_overrides_from_user"
    /\ \/ \E answer \in {"y", "yes", "n"} :
            /\ IF answer \notin {"y", "yes"}
               THEN extra_css' = <<>>
               ELSE \E lines \in SeqsUpTo(CssLines, MaxCssLines) :
                       extra_css' = JoinStrip(lines)
            /\ pc' = "ensure_output_dir"
            /\ error' = error
       \/ /\ pc' = "crashed"
          /\ error' = [kind |-> "EOFError", platform |-> "none"]
          /\ extra_css' = extra_css
    /\ UNCHANGED <<choice, platform_keys, user_html, out_dir, idx, invocations, files,
                   width, height, typo, full_html>>

\* os.makedirs(path, exist_ok=True) succeeds or raises OSError
ensure_output_dir ==
    /\ pc = "ensure_output_dir"
    /\ \E ok \in BOOLEAN :
        IF ok
        THEN /\ out_dir' = "output_images"
             /\ pc' = "for"
             /\ error' = error
        ELSE /\ out_dir' = out_dir
             /\ pc' = "crashed"
             /\ error' = [kind |-> "OSError", platform |-> "none"]
    /\ UNCHANGED <<choice, platform_keys, user_html, extra_css, idx, invocations, files,
                   width, height, typo, full_html>>

\* the call imgkit.from_string(html, out_path, options=options, config=config)
Invocation(key, html, css, dir) ==
    LET plat == PLATFORMS[key]
    IN  [html     |-> build_full_html(html, css, plat.width, plat.height),
         out_path |-> OutPath(dir, plat.name),
         options  |-> Options(plat.width, plat.height),
         config   |-> WKHTMLTOIMAGE_CMD]

\* one iteration of "for key in platform_keys": generate_image_for_platform(key).
\* imgkit.config may raise (no executable at WKHTMLTOIMAGE_CMD) before the
\* rasterizer is called; imgkit.from_string writes the file or raises.
\* An exception (KeyError of the lookup, either error of imgkit) is caught
\* nowhere and ends main(); after the last key main() prints and returns.
generate_image_for_platform ==
    /\ pc = "for"
    /\ idx <= Len(platform_keys)
    /\ LET key == platform_keys[idx]
       IN  IF key \notin DOMAIN PLATFORMS
           THEN /\ error' = [kind |-> "KeyError", platform |-> key]
                /\ pc' = "crashed"
                /\ UNCHANGED <<idx, invocations, files>>
           ELSE LET call == Invocation(key, user_html, extra_css, out_dir)
                    fail == [kind |-> "RasterizerFailure", platform |-> PLATFORMS[key].name]
                IN  \E outcome \in {"rendered", "from_string raises", "config raises"} :
                        CASE outcome = "rendered" ->
                                /\ invocations' = Append(invocations, call)
                                /\ files' = files \cup {call.out_path}
                                /\ idx' = idx + 1
                                /\ pc' = IF idx = Len(platform_keys) THEN "done" ELSE "for"
                                /\ error' = error
                          [] outcome = "from_string raises" ->
                                /\ invocations' = Append(invocations, call)
                                /\ pc' = "crashed"
                                /\ error' = fail
                                /\ UNCHANGED <<files, idx>>
                          [] outcome = "config raises" ->
                                /\ pc' = "crashed"
                                /\ error' = fail
                                /\ UNCHANGED <<invocations, files, idx>>
    /\ UNCHANGED <<choice, platform_keys, user_html, extra_css, out_dir,
                   width, height, typo, full_html>>

Next ==
    \/ choose_platforms
    \/ get_html_from_user
    \/ get_css_overrides_from_user
    \/ ensure_output_dir
    \/ generate_image_for_platform

Spec == Init /\ [][Next]_vars

-----------------------------------------------------------------------------
(* Direct calls of compute_typography *)

\* 700 is portrait from height 840 on, 1080 from height 1296 on: every height
\* below 1296 is seen on the landscape branch, every height from 840 on on the
\* portrait branch, and both have a canvas of aspect exactly 1.2
TypoWidths == {700, 1080}

TypoInit ==
    /\ pc = "typo_input"
    /\ width \in TypoWidths
    /\ height \in 1..MaxHeight
    /\ typo = NoTypo
    /\ full_html = <<>>
    /\ choice = "none"
    /\ platform_keys = <<>>
    /\ user_html = <<>>
    /\ extra_css = <<>>
    /\ out_dir = "none"
    /\ idx = 1
    /\ invocations = <<>>
    /\ files = {}
    /\ error = NoError

TypoCall ==
    /\ pc = "typo_input"
    /\ typo' = compute_typography(width, height)
    /\ pc' = "typo_done"
    /\ UNCHANGED <<width, height, full_html>>
    /\ UNCHANGED mainVars

\* a second call, on any taller canvas
TypoAgain ==
    /\ pc = "typo_done"
    /\ \E w \in TypoWidths, h \in (height + 1)..MaxHeight :
        /\ width' = w
        /\ height' = h
        /\ typo' = compute_typography(w, h)
    /\ pc' = "typo_again"
    /\ UNCHANGED full_html
    /\ UNCHANGED mainVars

TypoNext == TypoCall \/ TypoAgain

TypoSpec == TypoInit /\ [][TypoNext]_vars

-----------------------------------------------------------------------------
(* Direct calls of build_full_html *)

ComposeHeights == {PLATFORMS[k].height : k \in DOMAIN PLATFORMS}

ComposeInit ==
    /\ pc = "compose_input"
    /\ width \in 1..MaxWidth
    /\ height \in ComposeHeights
    /\ user_html \in {SAMPLE_HTML, <<"<p>Hello</p>">>}
    /\ extra_css \in {<<>>, <<"p { color: red; }">>}
    /\ typo = NoTypo
    /\ full_html = <<>>
    /\ choice = "none"
    /\ platform_keys = <<>>
    /\ out_dir = "none"
    /\ idx = 1
    /\ invocations = <<>>
    /\ files = {}
    /\ error = NoError

ComposeCall ==
    /\ pc = "compose_input"
    /\ full_html' = build_full_html(user_html, extra_css, width, height)
    /\ pc' = "compose_done"
    /\ UNCHANGED <<width, height, typo>>
    /\ UNCHANGED mainVars

ComposeNext == ComposeCall

ComposeSpec == ComposeInit /\ [][ComposeNext]_vars

-----------------------------------------------------------------------------
(* Vocabulary of the properties *)

\* the registry table of the specification, in its stable order
RegistryTable ==
    <<[id |-> "1", name |-> "instagram", width |-> 1080, height |-> 1350],
      [id |-> "2", name |-> "facebook",  width |-> 1200, height |-> 630],
      [id |-> "3", name |-> "linkedin",  width |-> 1200, height |-> 627],
      [id |-> "4", name |-> "threads",   width |-> 1080, height |-> 1350]>>

RegistryIds == {RegistryTable[i].id : i \in DOMAIN RegistryTable}

\* the set of platforms a valid answer requests ("5" is the 'all' selection)
RequestedIds == IF choice = "5" THEN RegistryIds ELSE {choice}

MainEnded == pc \in {"done", "crashed"}

\* height / width >= 1.2
AspectAtLeast12(w, h) == 5 * h >= 6 * w

\* q is the integer part of num * x / den
IsFloorOf(q, x, num, den) == den * q <= num * x /\ num * x < den * (q + 1)

\* r is an integer nearest to num * x / den (either one, on a tie)
IsNearestTo(r, x, num, den) ==
    LET d == 2 * (den * r - num * x)
    IN  -den <= d /\ d <= den

\* what the rasterizer is told of a call, apart from the document
CallSummary(call) ==
    [width |-> call.options.width, height |-> call.options.height,
     format |-> call.options.format, out_path |-> call.out_path]

\* the token that follows the first `key` after the first `anchor` of doc
ValueAfter(doc, anchor, key) ==
    LET a == CHOOSE i \in 1..Len(doc) :
                 doc[i] = anchor /\ \A j \in 1..(i - 1) : doc[j] # anchor
        k == CHOOSE i \in (a + 1)..Len(doc) :
                 doc[i] = key /\ \A j \in (a + 1)..(i - 1) : doc[j] # key
    IN  doc[k + 1]

IndexOf(doc, token) ==
    CHOOSE i \in 1..Len(doc) : doc[i] = token /\ \A j \in 1..(i - 1) : doc[j] # token

\* what stands between <style> and </style>
StyleOf(doc) ==
    SubSeq(doc, IndexOf(doc, "<style>") + 1, IndexOf(doc, "</style>") - 1)

\* the places where text occurs in seq
Occurrences(text, seq) ==
    {i \in 1..(Len(seq) - Len(text) + 1) : SubSeq(seq, i, i + Len(text) - 1) = text}

\* the last token of the brand rules: the "}" closing the "ul li" rule
LastBrandRuleEnd(sheet) ==
    LET m == IndexOf(sheet, "ul li {")
    IN  CHOOSE i \in (m + 1)..Len(sheet) :
            sheet[i] = "}" /\ \A j \in (m + 1)..(i - 1) : sheet[j] # "}"

-----------------------------------------------------------------------------
(* C1: batch render, failure isolation *)

\* C1: when main() has ended, normally or through a rasterizer failure on one
\* platform, every other requested platform, those after the failing one
\* included, has been handed to the rasterizer.
C1_FailureDoesNotAbortBatch ==
    (MainEnded /\ error.kind \in {"none", "RasterizerFailure"}) =>
        \A i \in DOMAIN platform_keys :
            LET name == PLATFORMS[platform_keys[i]].name
            IN  name # error.platform =>
                    \E j \in DOMAIN invocations :
                        invocations[j].out_path = <<out_dir, name \o ".png">>

-----------------------------------------------------------------------------
(* C2: unknown platform identifier *)

\* an answer was read, and it is neither a registry key nor "5"
UnknownChoice == choice \notin (RegistryIds \cup {"5", "none"})

\* C2 (as claimed): a request naming an identifier outside the registry fails as
\* a whole before any rendering work: no rasterizer invocation, no file, no
\* completed batch.
C2_UnknownPlatformRejected ==
    UnknownChoice => (invocations = <<>> /\ files = {} /\ pc # "done")

\* C2 (amended): an answer outside the registry (and other than "5") is not
\* rejected; choose_platforms replaces it by the full registry, so no lookup
\* fails, every key of the dispatch loop is a registry key, and a batch that
\* completes has rendered all four platforms.
C2_UnknownChoiceDefaultsToAll ==
    UnknownChoice =>
        /\ platform_keys = <<"1", "2", "3", "4">>
        /\ error.kind # "KeyError"
        /\ (pc = "done" =>
                /\ Len(invocations) = 4
                /\ files = {<<out_dir, RegistryTable[i].name \o ".png">> : i \in 1..4})

C2_Witness == choice = "9" /\ pc = "done" /\ Cardinality(files) = 4

-----------------------------------------------------------------------------
(* C3: dispatch order *)

\* the calls the specification expects for the requested set
ExpectedCalls ==
    LET wanted == SelectSeq(RegistryTable, LAMBDA e : e.id \in RequestedIds)
    IN  [i \in 1..Len(wanted) |->
            [width |-> wanted[i].width, height |-> wanted[i].height,
             format |-> "png", out_path |-> <<out_dir, wanted[i].name \o ".png">>]]

\* C3: for a valid request and no rasterizer failure, the rasterizer calls are
\* the registry order filtered to the requested set, one per platform, each
\* with its entry's width and height and the path out_dir/name.png: a prefix
\* of them while the loop runs, all of them when main() is done.
C3_DispatchInRegistryOrder ==
    (pc \in {"for", "done"} /\ choice \in (RegistryIds \cup {"5"})) =>
        LET made == [i \in DOMAIN invocations |-> CallSummary(invocations[i])]
        IN  /\ Len(made) <= Len(ExpectedCalls)
            /\ made = SubSeq(ExpectedCalls, 1, Len(made))
            /\ (pc = "done" => made = ExpectedCalls)

C3_Witness == pc = "done" /\ choice = "5" /\ Len(invocations) = 4

-----------------------------------------------------------------------------
(* C4: the base size *)

TypoCalled == pc \in {"typo_done", "typo_again"}

\* base = clamp(q, lo, hi) for an integer q nearest to num * h / 1000
ClampOfNearest(base, h, num, lo, hi) ==
    \/ base = lo /\ \E r \in 0..lo : IsNearestTo(r, h, num, 1000)
    \/ base = hi /\ 2 * num * h >= 1000 * (2 * hi - 1)
    \/ lo <= base /\ base <= hi /\ IsNearestTo(base, h, num, 1000)

\* base = clamp(q, lo, hi) for q the integer part of num * h / 1000
ClampOfFloor(base, h, num, lo, hi) ==
    \/ base = lo /\ num * h < 1000 * (lo + 1)
    \/ base = hi /\ num * h >= 1000 * hi
    \/ lo <= base /\ base <= hi /\ IsFloorOf(base, h, num, 1000)

\* C4 (as claimed): base = clamp(round(height * 0.028), 24, 36) when
\* height / width >= 1.2, clamp(round(height * 0.024), 16, 24) otherwise,
\* round being rounding to a nearest integer.
C4_BaseIsClampedRound ==
    TypoCalled =>
        IF AspectAtLeast12(width, height)
        THEN ClampOfNearest(typo.base, height, 28, 24, 36)
        ELSE ClampOfNearest(typo.base, height, 24, 16, 24)

\* C4 (amended): the same with the product truncated to its integer part:
\* base = clamp(floor(height * 0.028), 24, 36) when height / width >= 1.2,
\* clamp(floor(height * 0.024), 16, 24) otherwise.
C4_BaseIsClampedFloor ==
    TypoCalled =>
        IF AspectAtLeast12(width, height)
        THEN ClampOfFloor(typo.base, height, 28, 24, 36)
        ELSE ClampOfFloor(typo.base, height, 24, 16, 24)

\* 920 * 0.028 = 25.76: truncated to 25 where rounding gives 26
C4_Witness ==
    pc = "typo_done" /\ width = 700 /\ height = 920 /\ typo.base = 25

-----------------------------------------------------------------------------
(* C5: the derived sizes *)

\* C5 (as claimed): heading1 = round(base * 2.0), heading3 = round(base * 1.4),
\* line_height = round(base * 1.6), round being rounding to a nearest integer.
C5_DerivedAreRounded ==
    TypoCalled =>
        /\ typo.base \in 16..36
        /\ IsNearestTo(typo.h1, typo.base, 20, 10)
        /\ IsNearestTo(typo.h3, typo.base, 14, 10)
        /\ IsNearestTo(typo.line_height, typo.base, 16, 10)

\* C5 (amended): heading1 = 2 * base, heading3 = floor(base * 1.4) and
\* line_height = floor(base * 1.6), for every base in 16..36.
C5_DerivedAreTruncated ==
    TypoCalled =>
        /\ typo.base \in 16..36
        /\ typo.h1 = 2 * typo.base
        /\ IsFloorOf(typo.h3, typo.base, 14, 10)
        /\ IsFloorOf(typo.line_height, typo.base, 16, 10)

\* 17 * 1.4 = 23.8 and 17 * 1.6 = 27.2
C5_Witness ==
    pc = "typo_done" /\ typo.base = 17 /\ typo.h3 = 23 /\ typo.line_height = 27

-----------------------------------------------------------------------------
(* C6: the registry's canvases *)

\* the body font size written into a document
BodyFontSize(doc) == ValueAfter(doc, "<body style=", "font-size:")

\* C6: every document handed to the rasterizer has its base size on a clamp
\* boundary: 36 for 1080x1350 (aspect >= 1.2, the portrait cap), 16 for
\* 1200x630 and 1200x627 (aspect < 1.2, the landscape floor).
C6_RegistryBasesOnClampBoundary ==
    \A i \in DOMAIN invocations :
        LET o   == invocations[i].options
            doc == invocations[i].html
        IN  \/ /\ o.width = 1080 /\ o.height = 1350
               /\ AspectAtLeast12(o.width, o.height)
               /\ BodyFontSize(doc) = "36"
               /\ ValueAfter(doc, "p, li, span, div {", "font-size:") = "36"
            \/ /\ o.width = 1200 /\ o.height \in {630, 627}
               /\ ~AspectAtLeast12(o.width, o.height)
               /\ BodyFontSize(doc) = "16"
               /\ ValueAfter(doc, "p, li, span, div {", "font-size:") = "16"

C6_Witness ==
    /\ pc = "done"
    /\ {invocations[i].options.height : i \in DOMAIN invocations} = {1350, 630, 627}

-----------------------------------------------------------------------------
(* C7: monotonicity on the portrait branch *)

\* C7: of two canvases that both have height / width >= 1.2, the taller one
\* gets a base size at least as large, and both base sizes lie in 24..36.
C7_PortraitBaseMonotone ==
    [][(/\ pc = "typo_done" /\ pc' = "typo_again"
        /\ AspectAtLeast12(width, height)
        /\ AspectAtLeast12(width', height')
        /\ height < height')
       => (/\ typo.base <= typo'.base
           /\ typo.base \in 24..36
           /\ typo'.base \in 24..36)]_vars

\* a second call on a portrait canvas, strictly inside the clamp
C7_Witness ==
    pc = "typo_again" /\ AspectAtLeast12(width, height) /\ typo.base = 30

-----------------------------------------------------------------------------
(* C8: the content container width *)

ContainerWidth(doc) == ValueAfter(doc, "</style>", "max-width:")

ComposeCalled == pc = "compose_done"

\* C8 (as claimed): the container width is min(round(width * 0.8), 960), round
\* being rounding to a nearest integer.
C8_ContainerIsRoundedMin ==
    ComposeCalled =>
        LET cw      == ContainerWidth(full_html)
            nearest == {r \in 0..(width + 1) : IsNearestTo(r, width, 8, 10)}
        IN  \E r \in nearest : cw = ToString(IF r < 960 THEN r ELSE 960)

\* C8 (amended): the container width is min(floor(width * 0.8), 960): never
\* above 960, 864 for width 1080 and 960 for width 1200.
C8_ContainerIsTruncatedMin ==
    ComposeCalled =>
        LET cw == ContainerWidth(full_html)
            fl == CHOOSE c \in 0..width : IsFloorOf(c, width, 8, 10)
        IN  /\ cw = ToString(IF fl < 960 THEN fl ELSE 960)
            /\ (width = 1080 => cw = "864")
            /\ (width = 1200 => cw = "960")

\* 1199 * 0.8 = 959.2 is below the cap, 1201 * 0.8 = 960.8 is cut by it
C8_Witness ==
    ComposeCalled /\ width = 1201 /\ ContainerWidth(full_html) = "960"

-----------------------------------------------------------------------------
(* C9: the override block *)

OverrideMarker == "/* User overrides */"

=============================================================================
